---------------------------- MODULE Spec2Model ----------------------------
(***************************************************************************)
(* A model of the owned hierarchical bit set of hibitset (src/src/lib.rs): *)
(* BitSet with its four layers, add / remove / contains / clear,           *)
(* with_capacity, the BitSetLike accessors, and iteration over a BitSet    *)
(* and over BitSetAnd of two BitSets.                                      *)
(*                                                                         *)
(* Representation.                                                         *)
(*  - A machine word (usize) is the set of the positions of its one bits,  *)
(*    a subset of 0..W-1: x | y is union, x & y intersection, x & !y set   *)
(*    difference, x != 0 non-emptiness, trailing_zeros the least element.  *)
(*  - A Vec<usize> is a record [len, nz]: len is Vec::len(), nz maps the   *)
(*    positions below len that hold a nonzero word to that word; every     *)
(*    other position below len holds the zero word.  An indexed access     *)
(*    v[i] with i >= len is Rust's index-out-of-bounds panic and is        *)
(*    modelled as the panic "index".                                       *)
(*  - lib.rs uses mod util (Index, BITS, MAX_EID, SHIFT0..3, Row, offsets),*)
(*    mod iter (BitIter) and mod ops (BitSetAnd), whose files are not part *)
(*    of the sources at hand; they are modelled from the specification     *)
(*    document (sections 3, 4.1, 4.5, 4.6) and from their uses in lib.rs.  *)
(***************************************************************************)
EXTENDS Integers, Sequences, FiniteSets, TLC

(***************************************************************************)
(* util: index arithmetic.                                                 *)
(***************************************************************************)
\* log2 of the word width W; W = 32 is the width for which four layers
\* address exactly 2^20 indices (lib.rs:26, "1,048,576 indices").
BITS == 5

W == 2 ^ BITS

LAYERS == 4

\* Largest valid index, 2^20 - 1.
MAX_EID == 2 ^ (BITS * LAYERS) - 1

SHIFT0 == 0

SHIFT1 == SHIFT0 + BITS

SHIFT2 == SHIFT1 + BITS

SHIFT3 == SHIFT2 + BITS

\* Row::row: the bit position, within its word, of id's bit in the layer
\* whose bits each stand for 2^shift indices.
row(id, shift) == (id \div (2 ^ shift)) % W

\* Row::offset: id >> shift.
offset(id, shift) == id \div (2 ^ shift)

\* Row::mask: the word with the single bit row(id, shift).
mask(id, shift) == {row(id, shift)}

\* offsets(id) = (p0, p1, p2): the word positions in Layers 0, 1 and 2.
offsets(id) == <<offset(id, SHIFT1), offset(id, SHIFT2), offset(id, SHIFT3)>>

(***************************************************************************)
(* Vec<usize>.                                                             *)
(***************************************************************************)
\* Vec::new() / Vec::clear(): length zero.
EmptyVec == [len |-> 0, nz |-> [p \in {} |-> {}]]

\* v[i] for i < v.len.
VecAt(v, i) == IF i \in DOMAIN v.nz THEN v.nz[i] ELSE {}

\* v[i] = w for i < v.len.
VecPut(v, i, w) ==
    LET dom == IF w = {} THEN (DOMAIN v.nz) \ {i} ELSE (DOMAIN v.nz) \cup {i}
    IN  [v EXCEPT !.nz = [p \in dom |-> IF p = i THEN w ELSE v.nz[p]]]

\* v.get(i).map(|&x| x).unwrap_or(0)
VecGetOr0(v, i) == IF i < v.len THEN VecAt(v, i) ELSE {}

(***************************************************************************)
(* BitSet.                                                                 *)
(***************************************************************************)
\* BitSet::new(): Default::default().
new == [layer3 |-> {}, layer2 |-> EmptyVec, layer1 |-> EmptyVec, layer0 |-> EmptyVec]

\* The outcome of a call: the set afterwards, the returned boolean and
\* whether (and how) the call panicked: "none", "range" (valid_range) or
\* "index" (index out of bounds).
Outcome(s, ret, panic) == [s |-> s, ret |-> ret, panic |-> panic]

\* A valid_range that lets the first invalid index through (off by one).
valid_range_off_by_one(max) == MAX_EID + 1 < max

\* valid_range(max): TRUE iff it panics.
valid_range(max) == MAX_EID < max

\* fill_up(vec, to)
fill_up(vec, to) == IF vec.len > to THEN vec ELSE [vec EXCEPT !.len = to + 1]

\* An extend that grows Layer 0 alone.
extend_layer0_only(s, id) ==
    IF valid_range(id)
    THEN Outcome(s, FALSE, "range")
    ELSE Outcome([s EXCEPT !.layer0 = fill_up(s.layer0, offsets(id)[1])], FALSE, "none")

\* extend(&mut self, id)
extend(s, id) ==
    IF valid_range(id)
    THEN Outcome(s, FALSE, "range")
    ELSE LET p == offsets(id)
         IN  Outcome([s EXCEPT !.layer2 = fill_up(s.layer2, p[3]),
                               !.layer1 = fill_up(s.layer1, p[2]),
                               !.layer0 = fill_up(s.layer0, p[1])],
                     FALSE, "none")

\* A with_capacity that checks max and returns the set without growing it.
with_capacity_not_grown(max) ==
    IF valid_range(max) THEN Outcome(new, FALSE, "range") ELSE Outcome(new, FALSE, "none")

\* with_capacity(max)
with_capacity(max) ==
    IF valid_range(max) THEN Outcome(new, FALSE, "range") ELSE extend(new, max)

\* An add_slow that sets the Layer-1 and Layer-3 bits and forgets Layer 2.
add_slow_skips_layer2(s, id) ==
    LET p1 == offsets(id)[2]
    IN  IF p1 >= s.layer1.len THEN Outcome(s, FALSE, "index")
        ELSE Outcome([s EXCEPT
                        !.layer1 = VecPut(s.layer1, p1, VecAt(s.layer1, p1) \cup mask(id, SHIFT1)),
                        !.layer3 = s.layer3 \cup mask(id, SHIFT3)],
                     FALSE, "none")

\* add_slow(&mut self, id)
add_slow(s, id) ==
    LET p == offsets(id)
        p1 == p[2]
        p2 == p[3]
    IN  IF p1 >= s.layer1.len THEN Outcome(s, FALSE, "index")
        ELSE LET s1 == [s EXCEPT !.layer1 =
                            VecPut(s.layer1, p1, VecAt(s.layer1, p1) \cup mask(id, SHIFT1))]
             IN  IF p2 >= s1.layer2.len THEN Outcome(s1, FALSE, "index")
                 ELSE Outcome([s1 EXCEPT
                          !.layer2 = VecPut(s1.layer2, p2, VecAt(s1.layer2, p2) \cup mask(id, SHIFT2)),
                          !.layer3 = s1.layer3 \cup mask(id, SHIFT3)],
                        FALSE, "none")

\* add, from "let old = self.layer0[p0]" on: the bit is not set yet.
add_absent(s, id) ==
    LET p0  == offset(id, SHIFT1)
        m   == mask(id, SHIFT0)
        old == VecAt(s.layer0, p0)
        s2  == [s EXCEPT !.layer0 = VecPut(s.layer0, p0, old \cup m)]
    IN  IF old = {}
        THEN add_slow(s2, id)
        ELSE Outcome([s2 EXCEPT !.layer0 =
                         VecPut(s2.layer0, p0, VecAt(s2.layer0, p0) \cup m)],
                     FALSE, "none")

\* An add whose membership test looks at the whole word, not at id's bit.
add_tests_word(s, id) ==
    LET p0 == offset(id, SHIFT1)
        e  == IF p0 >= s.layer0.len THEN extend(s, id) ELSE Outcome(s, FALSE, "none")
        s1 == e.s
    IN  IF e.panic # "none" THEN e
        ELSE IF p0 >= s1.layer0.len THEN Outcome(s1, FALSE, "index")
        ELSE IF VecAt(s1.layer0, p0) # {} THEN Outcome(s1, TRUE, "none")
        ELSE add_absent(s1, id)

\* add(&mut self, id) -> bool
add(s, id) ==
    LET p0 == offset(id, SHIFT1)
        m  == mask(id, SHIFT0)
        e  == IF p0 >= s.layer0.len THEN extend(s, id) ELSE Outcome(s, FALSE, "none")
        s1 == e.s
    IN  IF e.panic # "none" THEN e
        ELSE IF p0 >= s1.layer0.len THEN Outcome(s1, FALSE, "index")
        ELSE IF VecAt(s1.layer0, p0) \cap m # {} THEN Outcome(s1, TRUE, "none")
        ELSE add_absent(s1, id)

\* remove, from "self.layer0[p0] &= !id.mask(SHIFT0)" on: the bit is set.
\* The cascade stops at the first layer whose word stays nonzero.
remove_present(s, id) ==
    LET p  == offsets(id)
        p0 == p[1]
        p1 == p[2]
        p2 == p[3]
        s0 == [s EXCEPT !.layer0 =
                  VecPut(s.layer0, p0, VecAt(s.layer0, p0) \ mask(id, SHIFT0))]
    IN  IF VecAt(s0.layer0, p0) # {} THEN Outcome(s0, TRUE, "none")
        ELSE IF p1 >= s0.layer1.len THEN Outcome(s0, FALSE, "index")
        ELSE LET s1 == [s0 EXCEPT !.layer1 =
                           VecPut(s0.layer1, p1, VecAt(s0.layer1, p1) \ mask(id, SHIFT1))]
             IN  IF VecAt(s1.layer1, p1) # {} THEN Outcome(s1, TRUE, "none")
                 ELSE IF p2 >= s1.layer2.len THEN Outcome(s1, FALSE, "index")
                 ELSE LET s2 == [s1 EXCEPT !.layer2 =
                                    VecPut(s1.layer2, p2, VecAt(s1.layer2, p2) \ mask(id, SHIFT2))]
                      IN  IF VecAt(s2.layer2, p2) # {} THEN Outcome(s2, TRUE, "none")
                          ELSE Outcome([s2 EXCEPT !.layer3 = s2.layer3 \ mask(id, SHIFT3)],
                                       TRUE, "none")

\* A remove whose membership test looks at the whole word, not at id's bit.
remove_tests_word(s, id) ==
    LET p0 == offsets(id)[1]
    IN  IF p0 >= s.layer0.len THEN Outcome(s, FALSE, "none")
        ELSE IF VecAt(s.layer0, p0) = {} THEN Outcome(s, FALSE, "none")
        ELSE remove_present(s, id)

\* A remove that, like add, grows the layers when id's word is not allocated.
remove_extends(s, id) ==
    LET p0 == offsets(id)[1]
        e  == IF p0 >= s.layer0.len THEN extend(s, id) ELSE Outcome(s, FALSE, "none")
    IN  IF e.panic # "none" THEN e
        ELSE IF VecAt(e.s.layer0, p0) \cap mask(id, SHIFT0) = {} THEN Outcome(e.s, FALSE, "none")
        ELSE remove_present(e.s, id)

\* remove(&mut self, id) -> bool
remove(s, id) ==
    LET p0 == offsets(id)[1]
    IN  IF p0 >= s.layer0.len THEN Outcome(s, FALSE, "none")
        ELSE IF VecAt(s.layer0, p0) \cap mask(id, SHIFT0) = {} THEN Outcome(s, FALSE, "none")
        ELSE remove_present(s, id)

\* contains(&self, id) -> bool
contains(s, id) ==
    LET p0 == offset(id, SHIFT1)
    IN  p0 < s.layer0.len /\ (VecAt(s.layer0, p0) \cap mask(id, SHIFT0)) # {}

\* A clear that empties the three vectors and leaves Layer 3 as it is.
clear_keeps_layer3(s) ==
    [layer3 |-> s.layer3, layer2 |-> EmptyVec, layer1 |-> EmptyVec, layer0 |-> EmptyVec]

\* clear(&mut self)
clear(s) == [layer3 |-> {}, layer2 |-> EmptyVec, layer1 |-> EmptyVec, layer0 |-> EmptyVec]

(***************************************************************************)
(* BitSetLike: the read-only view the iterator works on.  A view is either *)
(* a borrowed BitSet, [kind |-> "BitSet", s], or BitSetAnd(&a, &b) of two  *)
(* borrowed BitSets, [kind |-> "BitSetAnd", a, b].                         *)
(***************************************************************************)
\* impl BitSetLike for &BitSet: the view of a BitSet.
Ref(s) == [kind |-> "BitSet", s |-> s]

\* BitSetAnd(&a, &b)
BitSetAnd(a, b) == [kind |-> "BitSetAnd", a |-> a, b |-> b]

\* impl BitSetLike for BitSet
BitSet_layer3(s) == s.layer3

BitSet_layer2(s, i) == VecGetOr0(s.layer2, i)

BitSet_layer1(s, i) == VecGetOr0(s.layer1, i)

\* A layer0 accessor that reads the Layer-1 vector.
BitSet_layer0_reads_layer1(s, i) == VecGetOr0(s.layer1, i)

BitSet_layer0(s, i) == VecGetOr0(s.layer0, i)

\* BitSetLike::layer3 .. layer0 of a view; BitSetAnd's accessors are the
\* bitwise AND of its operands' accessors.
layer3(v) ==
    IF v.kind = "BitSet" THEN BitSet_layer3(v.s)
    ELSE BitSet_layer3(v.a) \cap BitSet_layer3(v.b)

layer2(v, i) ==
    IF v.kind = "BitSet" THEN BitSet_layer2(v.s, i)
    ELSE BitSet_layer2(v.a, i) \cap BitSet_layer2(v.b, i)

layer1(v, i) ==
    IF v.kind = "BitSet" THEN BitSet_layer1(v.s, i)
    ELSE BitSet_layer1(v.a, i) \cap BitSet_layer1(v.b, i)

layer0(v, i) ==
    IF v.kind = "BitSet" THEN BitSet_layer0(v.s, i)
    ELSE BitSet_layer0(v.a, i) \cap BitSet_layer0(v.b, i)

(***************************************************************************)
(* BitIter.  masks[1..4] are the cached words of Layers 0..3 (the code's   *)
(* masks[0..3]); prefix[1..3] are the cursors (the code's prefix[0..2]).   *)
(***************************************************************************)
\* BitIter::new(set, masks, prefix)
BitIter_new(set, masks, prefix) == [set |-> set, masks |-> masks, prefix |-> prefix]

\* An iter that seeds the masks in the reverse order: layer3() in masks[0].
iter_seeds_reversed(v) == BitIter_new(v, <<layer3(v), {}, {}, {}>>, <<0, 0, 0>>)

\* BitSetLike::iter(self)
iter(v) == BitIter_new(v, <<{}, {}, {}, layer3(v)>>, <<0, 0, 0>>)

\* usize::trailing_zeros of a nonzero word: its lowest set bit.
trailing_zeros(w) == CHOOSE b \in w : \A c \in w : b <= c

\* None, the end of the sequence.
None == -1

\* Iterator::next: the loop of one next() call.  Step 1 takes the lowest bit
\* of the cached Layer-0 word; otherwise the climb takes the next bit of the
\* cached Layer-1, Layer-2 or Layer-3 word, loads the word below it and
\* retries.  A prefix is a position shifted left by BITS, so prefix | bit
\* is prefix + bit.
RECURSIVE BitIter_next(_)
BitIter_next(it) ==
    IF it.masks[1] # {}
    THEN LET bit == trailing_zeros(it.masks[1])
         IN  [it   |-> [it EXCEPT !.masks[1] = it.masks[1] \ {bit}],
              item |-> it.prefix[1] + bit]
    ELSE IF it.masks[2] # {}
    THEN LET bit == trailing_zeros(it.masks[2])
             idx == it.prefix[2] + bit
         IN  BitIter_next([it EXCEPT !.masks[2] = it.masks[2] \ {bit},
                                     !.masks[1] = layer0(it.set, idx),
                                     !.prefix[1] = idx * W])
    ELSE IF it.masks[3] # {}
    THEN LET bit == trailing_zeros(it.masks[3])
             idx == it.prefix[3] + bit
         IN  BitIter_next([it EXCEPT !.masks[3] = it.masks[3] \ {bit},
                                     !.masks[2] = layer1(it.set, idx),
                                     !.prefix[2] = idx * W])
    ELSE IF it.masks[4] # {}
    THEN LET bit == trailing_zeros(it.masks[4])
         IN  BitIter_next([it EXCEPT !.masks[4] = it.masks[4] \ {bit},
                                     !.masks[3] = layer2(it.set, bit),
                                     !.prefix[3] = bit * W])
    ELSE [it |-> it, item |-> None]

(***************************************************************************)
(* The inputs the calls are made with.                                     *)
(***************************************************************************)
\* How many of the sample indices the calls of Spec draw from.
NumIds == 5

\* How many of the sample indices the calls of SpecAnd draw from.
NumAndIds == 4

\* Valid indices: two bits of one Layer-0 word (0, 1), a second Layer-0 word
\* under the same Layer-1 word (32), a second Layer-1 word under the same
\* Layer-2 word (1024), the last valid index (MAX_EID, the last word of every
\* layer), a second Layer-2 word (32768), and neighbours of these.
SampleIds == <<0, 1, 32, 1024, MAX_EID, 32768, 33, 1025, MAX_EID - 1, 31>>

Ids == {SampleIds[k] : k \in 1..NumIds}

AndIds == {SampleIds[k] : k \in 1..NumAndIds}

\* Indices beyond the capacity: the first invalid one and a large u32.
BadIds == {MAX_EID + 1, 2147483647}

\* The arguments of with_capacity: valid ones and the first invalid one.
Caps == {0, 1024, MAX_EID, MAX_EID + 1}

(***************************************************************************)
(* State.                                                                  *)
(*   A, B      two owned BitSets (Spec uses A alone)                       *)
(*   it, out   the BitIter in use, if any, and the indices it has yielded  *)
(*   iterating "idle", "running" (next() may be called), or "exhausted"    *)
(*             (next() has returned None)                                  *)
(*   last      the last call on A: its name, argument, result, the value   *)
(*             of A before it and hist[id] before it; last.panic is the    *)
(*             panic, if any, that has aborted the program                 *)
(*   hist      per sample index, what the calls on A so far did to it:     *)
(*             "added" (added, and neither removed nor cleared since),     *)
(*             "removed" (added, then removed, and not added since; a      *)
(*             clear() forgets it) or "none"                               *)
(*   ctorMax   the argument of with_capacity, or -1 after new()            *)
(*   within    TRUE while A was built by with_capacity(ctorMax) and every  *)
(*             call since was an add or remove of an index <= ctorMax      *)
(***************************************************************************)
VARIABLES A, B, it, out, iterating, last, hist, ctorMax, within

vars == <<A, B, it, out, iterating, last, hist, ctorMax, within>>

NoIter == [set |-> Ref(new), masks |-> <<{}, {}, {}, {}>>, prefix |-> <<0, 0, 0>>]

Call(op, id, o, pre, was) ==
    [op |-> op, id |-> id, ret |-> o.ret, panic |-> o.panic, pre |-> pre, was |-> was]

Hist(id) == IF id \in DOMAIN hist THEN hist[id] ELSE "none"

\* A panic aborts the program; a live BitIter borrows the set.
Running == last.panic = "none" /\ iterating = "idle"

\* let mut c = BitSet::new();
InitNew ==
    /\ A = new
    /\ last = Call("new", -1, Outcome(new, FALSE, "none"), new, "none")
    /\ ctorMax = -1
    /\ within = FALSE

\* let mut c = BitSet::with_capacity(max);
InitWithCapacity ==
    \E max \in Caps :
        LET o == with_capacity(max)
        IN  /\ A = o.s
            /\ last = Call("with_capacity", max, o, new, "none")
            /\ ctorMax = max
            /\ within = (o.panic = "none")

InitRest ==
    /\ B = new
    /\ it = NoIter
    /\ out = << >>
    /\ iterating = "idle"

Init ==
    /\ InitNew \/ InitWithCapacity
    /\ hist = [id \in Ids |-> "none"]
    /\ InitRest

\* c.add(id)
Add(id) ==
    /\ Running
    /\ LET o == add(A, id)
       IN  /\ A' = o.s
           /\ last' = Call("add", id, o, A, Hist(id))
           /\ hist' = IF o.panic = "none" /\ id \in DOMAIN hist
                      THEN [hist EXCEPT ![id] = "added"] ELSE hist
    /\ within' = (within /\ id <= ctorMax)
    /\ UNCHANGED <<B, it, out, iterating, ctorMax>>

\* c.remove(id)
Remove(id) ==
    /\ Running
    /\ LET o == remove(A, id)
       IN  /\ A' = o.s
           /\ last' = Call("remove", id, o, A, Hist(id))
           /\ hist' = IF o.panic = "none" /\ Hist(id) # "none"
                      THEN [hist EXCEPT ![id] = "removed"] ELSE hist
    /\ within' = (within /\ id <= ctorMax)
    /\ UNCHANGED <<B, it, out, iterating, ctorMax>>

\* c.clear()
Clear ==
    /\ Running
    /\ A' = clear(A)
    /\ last' = Call("clear", -1, Outcome(A', FALSE, "none"), A, "none")
    /\ hist' = [id \in DOMAIN hist |-> "none"]
    /\ within' = FALSE
    /\ UNCHANGED <<B, it, out, iterating, ctorMax>>

\* (&c).iter()
IterStart ==
    /\ Running
    /\ it' = iter(Ref(A))
    /\ out' = << >>
    /\ iterating' = "running"
    /\ UNCHANGED <<A, B, last, hist, ctorMax, within>>

\* BitSetAnd(&a, &b).iter()
IterAndStart ==
    /\ Running
    /\ it' = iter(BitSetAnd(A, B))
    /\ out' = << >>
    /\ iterating' = "running"
    /\ UNCHANGED <<A, B, last, hist, ctorMax, within>>

\* One next() call of the for loop over the iterator, which ends at None.
IterNext ==
    /\ iterating = "running"
    /\ LET r == BitIter_next(it)
       IN  /\ it' = r.it
           /\ out' = IF r.item = None THEN out ELSE Append(out, r.item)
           /\ iterating' = IF r.item = None THEN "exhausted" ELSE "running"
    /\ UNCHANGED <<A, B, last, hist, ctorMax, within>>

\* b.add(id) and b.remove(id) on the second set.
AddB(id) ==
    /\ Running
    /\ LET o == add(B, id)
       IN  /\ B' = o.s
           /\ last' = [last EXCEPT !.panic = o.panic]
    /\ UNCHANGED <<A, it, out, iterating, hist, ctorMax, within>>

RemoveB(id) ==
    /\ Running
    /\ LET o == remove(B, id)
       IN  /\ B' = o.s
           /\ last' = [last EXCEPT !.panic = o.panic]
    /\ UNCHANGED <<A, it, out, iterating, hist, ctorMax, within>>

Next ==
    \/ \E id \in Ids \cup BadIds : Add(id)
    \/ \E id \in Ids \cup BadIds : Remove(id)
    \/ Clear
    \/ IterStart
    \/ IterNext

Spec == Init /\ [][Next]_vars

\* Two sets built by add and remove from new(), then BitSetAnd iterated.
InitAnd ==
    /\ InitNew
    /\ hist = [id \in AndIds |-> "none"]
    /\ InitRest

NextAnd ==
    \/ \E id \in AndIds : Add(id)
    \/ \E id \in AndIds : Remove(id)
    \/ \E id \in AndIds : AddB(id)
    \/ \E id \in AndIds : RemoveB(id)
    \/ IterAndStart
    \/ IterNext

SpecAnd == InitAnd /\ [][NextAnd]_vars

(***************************************************************************)
(* Helpers of the properties.                                              *)
(***************************************************************************)
Lens(s) == <<s.layer0.len, s.layer1.len, s.layer2.len>>

\* The positions of a layer that can matter to the summary above it: those
\* holding a nonzero word and those under a nonzero word of the layer above.
\* At every other position the word is zero and so is its summary bit.
Positions(lo, hi) ==
    (DOMAIN lo.nz) \cup {q * W + b : q \in DOMAIN hi.nz, b \in 0..(W - 1)}

\* The indices of the Layer-0 words that are nonzero; every member lies in
\* one of them.
Candidates(s) == {p * W + b : p \in DOMAIN s.layer0.nz, b \in 0..(W - 1)}

\* The members of s: the indices id with contains(id).
Members(s) == {id \in Candidates(s) : contains(s, id)}

StrictlyIncreasing(q) == \A i \in 1..(Len(q) - 1) : q[i] < q[i + 1]

Range(q) == {q[i] : i \in 1..Len(q)}

\* The three parts of the hierarchy invariant for a set s.
Hierarchy(s) ==
    /\ \A p0 \in Positions(s.layer0, s.layer1) :
          ((p0 % W) \in BitSet_layer1(s, p0 \div W)) <=> (BitSet_layer0(s, p0) # {})
    /\ \A p1 \in Positions(s.layer1, s.layer2) :
          ((p1 % W) \in BitSet_layer2(s, p1 \div W)) <=> (BitSet_layer1(s, p1) # {})
    /\ \A p2 \in 0..(W - 1) :
          (p2 \in BitSet_layer3(s)) <=> (BitSet_layer2(s, p2) # {})

(***************************************************************************)
(* The properties.                                                         *)
(***************************************************************************)
\* C1: in every state reached from new() or with_capacity(max) by add, remove
\* and clear, a Layer-1 bit is set iff the Layer-0 word it stands for is
\* nonzero, a Layer-2 bit iff its Layer-1 word is nonzero, and a Layer-3 bit
\* iff its Layer-2 word is nonzero (unallocated words counting as zero).
C1_HierarchyInvariant == Hierarchy(A)

\* A remove that emptied its Layer-0 word and stopped the cascade below
\* Layer 3, in a set holding words in several Layer-2 words.
C1_Witness ==
    /\ last.op = "remove" /\ last.ret
    /\ BitSet_layer0(A, offset(last.id, SHIFT1)) = {}
    /\ BitSet_layer1(A, offset(last.id, SHIFT2)) # {}
    /\ Cardinality(A.layer3) >= 2

\* C2: add(id) of an index that is not a member returns false; add(id) of an
\* index added before, with no remove(id) or clear() since, returns true; and
\* an index added stays contained until remove(id) or clear(), whatever is
\* done to other indices.
C2_AddIdempotent ==
    /\ (last.op = "add" /\ last.id <= MAX_EID /\ ~contains(last.pre, last.id))
          => (last.ret = FALSE /\ contains(A, last.id))
    /\ (last.op = "add" /\ last.was = "added")
          => (last.ret = TRUE /\ contains(A, last.id))
    /\ \A id \in DOMAIN hist : hist[id] = "added" => contains(A, id)

\* A repeated add returning true while a second index has been added and
\* removed and a third is still a member.
C2_Witness ==
    /\ last.op = "add" /\ last.was = "added" /\ last.ret
    /\ \E j \in DOMAIN hist : j # last.id /\ hist[j] = "removed"
    /\ \E j \in DOMAIN hist : j # last.id /\ hist[j] = "added"

\* C3: remove(id) of an index added and not removed since (nor cleared away)
\* returns true and leaves contains(id) false; a second remove(id) with no
\* add(id) in between returns false.
C3_RemoveRoundTrip ==
    /\ (last.op = "remove" /\ last.was = "added")
          => (last.ret = TRUE /\ ~contains(A, last.id))
    /\ (last.op = "remove" /\ last.was = "removed")
          => (last.ret = FALSE /\ ~contains(A, last.id))

\* The second remove of an index, in a set that still has members.
C3_Witness ==
    /\ last.op = "remove" /\ last.was = "removed" /\ ~last.ret
    /\ A.layer3 # {}

\* C4: add(id) with id >= 2^20 panics and sets no bit, also in a set built by
\* with_capacity(MAX_EID); with_capacity(max) with max >= 2^20 panics; add(id)
\* with id <= 2^20 - 1 never panics.
C4_CapacityViolation ==
    /\ (last.op = "add" /\ last.id >= 2 ^ 20)
          => (last.panic = "range" /\ A = last.pre)
    /\ (last.op = "with_capacity" /\ last.id >= 2 ^ 20) => last.panic = "range"
    /\ (last.op = "add" /\ last.id \in 0..(2 ^ 20 - 1)) => last.panic = "none"

\* add(1_048_576) panicking on a non-empty set built by with_capacity(MAX_EID).
C4_Witness ==
    /\ last.op = "add" /\ last.id = 1048576 /\ last.panic = "range"
    /\ ctorMax = MAX_EID
    /\ contains(A, MAX_EID)

\* C5: iteration over a BitSet yields a strictly increasing sequence of
\* members, makes no more than one next() call per member before the call
\* that returns None, and has then yielded every member.
C5_IterExact ==
    (iterating # "idle" /\ it.set.kind = "BitSet")
      => /\ StrictlyIncreasing(out)
         /\ \A i \in 1..Len(out) : contains(A, out[i])
         /\ Len(out) <= Cardinality(Members(A))
         /\ iterating = "exhausted" => Range(out) = Members(A)

\* An exhausted iteration that yielded members of three Layer-0 words lying
\* in two Layer-2 words.
C5_Witness ==
    /\ iterating = "exhausted" /\ it.set.kind = "BitSet"
    /\ {0, 1, 32, MAX_EID} \subseteq Range(out)

\* C6: iteration over BitSetAnd(A, B) yields a strictly increasing sequence
\* of indices contained in both, and when it ends it has yielded every such
\* index: nothing when A and B are disjoint.
C6_AndIterIntersection ==
    (iterating # "idle" /\ it.set.kind = "BitSetAnd")
      => /\ StrictlyIncreasing(out)
         /\ \A i \in 1..Len(out) : contains(A, out[i]) /\ contains(B, out[i])
         /\ Len(out) <= Cardinality(Members(A) \cap Members(B))
         /\ iterating = "exhausted" => Range(out) = Members(A) \cap Members(B)

\* Disjoint A and B sharing a Layer-0 word: the ANDed Layer-1, 2 and 3 words
\* are nonzero over an all-zero ANDed Layer-0 word, and nothing is yielded.
C6_Witness ==
    /\ iterating = "exhausted" /\ it.set.kind = "BitSetAnd"
    /\ out = << >>
    /\ contains(A, 0) /\ contains(B, 1)
    /\ layer3(it.set) # {} /\ layer2(it.set, 0) # {} /\ layer1(it.set, 0) # {}
    /\ layer0(it.set, 0) = {}

\* The index is not a member: its Layer-0 word was never allocated or its bit
\* is clear.
Absent(s, id) ==
    \/ offset(id, SHIFT1) >= s.layer0.len
    \/ row(id, SHIFT0) \notin VecAt(s.layer0, offset(id, SHIFT1))

\* C7: remove(id) of an index that is not a member returns false, does not
\* panic and changes no layer word and no layer length; contains(id) of such
\* an index is false.
C7_AbsentQueries ==
    /\ (last.op = "remove" /\ Absent(last.pre, last.id))
          => (last.ret = FALSE /\ last.panic = "none" /\ A = last.pre)
    /\ \A id \in Ids \cup BadIds : Absent(A, id) => ~contains(A, id)

\* remove(id) of an index whose Layer-0 word was never allocated, on a
\* non-empty set.
C7_Witness ==
    /\ last.op = "remove" /\ ~last.ret
    /\ offset(last.id, SHIFT1) >= A.layer0.len
    /\ A.layer3 # {}

\* C8: after clear() the set is the one new() returns: Layer 3 is zero,
\* Layers 0, 1 and 2 have length zero and no index is contained.
C8_ClearResets ==
    last.op = "clear"
      => /\ A = new
         /\ A.layer3 = {} /\ Lens(A) = <<0, 0, 0>>
         /\ \A id \in Ids \cup BadIds \cup Members(last.pre) : ~contains(A, id)

\* clear() of a set that had members and allocated layers.
C8_Witness ==
    /\ last.op = "clear"
    /\ Cardinality(Members(last.pre)) >= 2
    /\ last.pre.layer0.len > 1

\* C9: with_capacity(max), max <= 2^20 - 1, returns a set with no member, and
\* as long as only indices <= max are added and removed, add leaves the
\* lengths of Layers 0, 1 and 2 as they are.
C9_WithCapacity ==
    /\ (last.op = "with_capacity" /\ last.id <= 2 ^ 20 - 1)
          => /\ last.panic = "none"
             /\ A.layer3 = {} /\ Members(A) = {}
             /\ \A id \in Ids \cup BadIds : ~contains(A, id)
    /\ (within /\ last.op = "add") => Lens(A) = Lens(last.pre)

\* add(max) into a set built by with_capacity(max), for a max whose word is
\* not the first of its layer.
C9_Witness ==
    /\ within /\ last.op = "add" /\ ~last.ret
    /\ last.id = ctorMax /\ ctorMax >= 1024

\* C10: every allocated Layer-0 word position has its Layer-1 and Layer-2
\* word allocated, so no call panics with an index out of bounds.
C10_LayerLengths ==
    /\ \A p0 \in {p \in (DOMAIN A.layer0.nz) \cup {A.layer0.len - 1}
                            \cup {offset(id, SHIFT1) : id \in Ids} :
                     0 <= p /\ p < A.layer0.len} :
          /\ offset(p0, BITS) < A.layer1.len
          /\ offset(p0, 2 * BITS) < A.layer2.len
    /\ last.panic # "index"

\* A remove that cascaded to Layer 3 (it indexed layer1 and layer2) in a set
\* with several Layer-0 words allocated.
C10_Witness ==
    /\ last.op = "remove" /\ last.ret
    /\ A.layer3 # last.pre.layer3
    /\ A.layer0.len > 1 /\ A.layer3 # {}

=============================================================================
